---- MODULE Spec2Model ----
(***************************************************************************)
(* The admission-webhook protocol adapter of image-mutator:                *)
(* cmd/image-registry-mutator/admission_controller.go.                     *)
(*                                                                         *)
(* One HTTP request is served by one run of serveAdmitFunc, which calls    *)
(* doServeAdmitFunc (validate, decode, invoke the admitFunc, encode) and   *)
(* then writes the single response body.  Each handler h has its own       *)
(* request r[h], ResponseWriter w[h] and locals; pc[h] is its position.    *)
(*                                                                         *)
(* Byte strings that hold JSON are modelled as JSON documents (tagged      *)
(* records); json.Marshal and the deserializer are the operators that map  *)
(* Go values to documents and back, with the omitempty / null / pointer /  *)
(* unsupported-type rules of the field tags in the source.  Go strings are *)
(* taken to be text (valid UTF-8).                                         *)
(***************************************************************************)
EXTENDS Naturals, Sequences, FiniteSets, TLC

VARIABLES
    pc,                       \* position of each handler in serveAdmitFunc / doServeAdmitFunc
    r,                        \* the *http.Request
    w,                        \* the http.ResponseWriter
    body,                     \* doServeAdmitFunc: body
    admissionReviewReq,       \* doServeAdmitFunc: admissionReviewReq
    admissionReviewResponse,  \* doServeAdmitFunc: admissionReviewResponse
    patchOps,                 \* doServeAdmitFunc: patchOps
    err,                      \* doServeAdmitFunc: err, as assigned by admit(...)
    ret,                      \* what doServeAdmitFunc returned: (bytes, err)
    writeErr,                 \* serveAdmitFunc: writeErr
    admitCalls,               \* the invocations of the admitFunc: the request of each
    decodeCalls,              \* how often universalDeserializer.Decode was called
    universalDeserializer     \* the package-level deserializer all handlers decode with

vars == <<pc, r, w, body, admissionReviewReq, admissionReviewResponse, patchOps,
          err, ret, writeErr, admitCalls, decodeCalls, universalDeserializer>>

\* The requests in flight: one run of the handler each.
Handlers == DOMAIN pc

\* The names of the handler runs.
AllHandlers == {"h1", "h2"}

\* Longest patch-operation list the admitFunc returns in the model.
MaxOps == 2

-----------------------------------------------------------------------------
(* net/http *)

MethodPost == "POST"
StatusOK == 200
StatusBadRequest == 400
StatusMethodNotAllowed == 405
StatusInternalServerError == 500

jsonContentType == "application/json"

\* Go's error values: nil, or an error with its Error() text.
NilErr == [isNil |-> TRUE, msg |-> ""]
NewErr(m) == [isNil |-> FALSE, msg |-> m]

-----------------------------------------------------------------------------
(* Byte strings: JSON documents, plain text, or bytes that are no JSON. *)

JNull == [k |-> "null"]
JStr(s) == [k |-> "str", s |-> s]
JBool(b) == [k |-> "bool", s |-> IF b THEN "true" ELSE "false"]
JArr(a) == [k |-> "arr", a |-> a]
JObj(m) == [k |-> "obj", m |-> m]
Member(key, val) == [key |-> key, val |-> val]
\* a []byte field inside a JSON document: the base64 string of its bytes
JBase64(b) == [k |-> "base64", b |-> b]
\* []byte(text)
Text(s) == [k |-> "text", s |-> s]
\* bytes that are not a JSON document
Garbage == [k |-> "garbage"]
\* a nil or empty []byte
NoBytes == [k |-> "none"]

HasKey(obj, key) == \E i \in 1..Len(obj.m) : obj.m[i].key = key
\* encoding/json keeps the last member of a repeated key
Get(obj, key) ==
    obj.m[CHOOSE i \in 1..Len(obj.m) :
              /\ obj.m[i].key = key
              /\ \A j \in 1..Len(obj.m) : obj.m[j].key = key => j <= i].val

-----------------------------------------------------------------------------
(* patchOperation and json.Marshal(patchOps) *)

\* The dynamic values a patchOperation.Value (interface{}) holds in the model:
\* the nil interface, strings, a typed nil pointer, and a channel (a type
\* encoding/json does not support).
NilValue == [g |-> "nil", s |-> ""]
StringValue(s) == [g |-> "string", s |-> s]
NilPointerValue == [g |-> "ptr", s |-> ""]
ChanValue == [g |-> "chan", s |-> ""]
Values == {NilValue, StringValue("bar"), StringValue(""), NilPointerValue, ChanValue}

patchOperation(op, path, value) == [Op |-> op, Path |-> path, Value |-> value]

\* The operations an admitFunc returns in the model.
PatchOperations ==
    {patchOperation("add", "/spec/foo", v) : v \in Values}
        \cup {patchOperation("remove", "/spec/old", NilValue)}

\* A Go slice: nil, or a (possibly empty) sequence of elements.
NilSlice == [isNil |-> TRUE, elems |-> <<>>]
Slice(s) == [isNil |-> FALSE, elems |-> s]

SeqsUpTo(S, n) == UNION {[1..k -> S] : k \in 0..n}

PatchOpLists == {NilSlice} \cup {Slice(s) : s \in SeqsUpTo(PatchOperations, MaxOps)}

\* encoding/json on one interface{} value that is not the nil interface.
JsonMarshalValue(v) ==
    CASE v.g = "string" -> JStr(v.s)
      [] v.g = "ptr" -> JNull
      [] OTHER -> JNull

\* Mutant: omitempty as it acts on a string field, dropping the empty string too.
ValueOmittedWhenEmpty(v) == v.g = "nil" \/ (v.g = "string" /\ v.s = "")

\* Whether the `json:"value,omitempty"` field is left out: only for the nil interface.
ValueOmitted(v) == v.g = "nil"

\* encoding/json on one patchOperation, with the struct's field tags.
JsonMarshalPatchOperation(op) ==
    JObj(<<Member("op", JStr(op.Op)), Member("path", JStr(op.Path))>>
         \o (IF ValueOmitted(op.Value)
             THEN <<>>
             ELSE <<Member("value", JsonMarshalValue(op.Value))>>))

\* Whether encoding/json rejects the value (json.UnsupportedTypeError).
Unsupported(v) == v.g = "chan"

\* Mutant: a nil list is not marshaled, the patch stays empty.
JsonMarshalPatchOpsSkipsNil(ops) ==
    IF \E i \in 1..Len(ops.elems) : Unsupported(ops.elems[i].Value)
    THEN [bytes |-> NoBytes, err |-> NewErr("json: unsupported type: chan int")]
    ELSE IF ops.isNil
    THEN [bytes |-> NoBytes, err |-> NilErr]
    ELSE [bytes |-> JArr([i \in 1..Len(ops.elems) |->
                             JsonMarshalPatchOperation(ops.elems[i])]),
          err |-> NilErr]

\* json.Marshal(patchOps): (patchBytes, err).
JsonMarshalPatchOps(ops) ==
    IF \E i \in 1..Len(ops.elems) : Unsupported(ops.elems[i].Value)
    THEN [bytes |-> NoBytes, err |-> NewErr("json: unsupported type: chan int")]
    ELSE IF ops.isNil
    THEN [bytes |-> JNull, err |-> NilErr]
    ELSE [bytes |-> JArr([i \in 1..Len(ops.elems) |->
                             JsonMarshalPatchOperation(ops.elems[i])]),
          err |-> NilErr]

\* json.Unmarshal of a JSON value into an interface{}.
JsonUnmarshalValue(j) ==
    IF j.k = "str" THEN StringValue(j.s) ELSE NilValue

JsonUnmarshalString(obj, key) ==
    IF HasKey(obj, key) /\ Get(obj, key).k = "str" THEN Get(obj, key).s ELSE ""

\* json.Unmarshal of one JSON object into a patchOperation.
JsonUnmarshalPatchOperation(obj) ==
    patchOperation(JsonUnmarshalString(obj, "op"),
                   JsonUnmarshalString(obj, "path"),
                   IF HasKey(obj, "value")
                   THEN JsonUnmarshalValue(Get(obj, "value"))
                   ELSE NilValue)

\* json.Unmarshal(patchBytes, &ops) for a []patchOperation.
JsonUnmarshalPatchOps(doc) ==
    IF doc.k = "arr"
    THEN Slice([i \in 1..Len(doc.a) |-> JsonUnmarshalPatchOperation(doc.a[i])])
    ELSE NilSlice

-----------------------------------------------------------------------------
(* v1beta1.AdmissionReview: decoding the request, encoding the response *)

NilRequest == [isNil |-> TRUE, UID |-> ""]
AdmissionRequest(uid) == [isNil |-> FALSE, UID |-> uid]
NilStatus == [isNil |-> TRUE, Message |-> ""]
Status(m) == [isNil |-> FALSE, Message |-> m]

\* universalDeserializer.Decode(body, nil, &admissionReviewReq): the review
\* decoded (only its Request matters here) and the error.  Unknown members are
\* ignored; a missing or null "request" leaves Request nil; a "request" or a
\* "uid" of the wrong JSON type is an error.
UniversalDeserializerDecode(b) ==
    IF b.k # "obj"
    THEN [Request |-> NilRequest, err |-> NewErr("invalid character")]
    ELSE IF ~HasKey(b, "request") \/ Get(b, "request").k = "null"
    THEN [Request |-> NilRequest, err |-> NilErr]
    ELSE IF Get(b, "request").k # "obj"
    THEN [Request |-> NilRequest, err |-> NewErr("cannot unmarshal into AdmissionRequest")]
    ELSE LET req == Get(b, "request") IN
         IF ~HasKey(req, "uid") \/ Get(req, "uid").k = "null"
         THEN [Request |-> AdmissionRequest(""), err |-> NilErr]
         ELSE IF Get(req, "uid").k = "str"
         THEN [Request |-> AdmissionRequest(Get(req, "uid").s), err |-> NilErr]
         ELSE [Request |-> NilRequest, err |-> NewErr("cannot unmarshal into UID")]

\* json.Marshal(&admissionReviewResponse): (bytes, err).  Request is nil and
\* left out; uid and allowed are always written; status is written when
\* Result is set (its message only when not empty); patch is written when it
\* is not empty, as base64.  Nothing in the value can make encoding/json fail.
JsonMarshalReview(rev) ==
    LET resp == rev.Response
        status ==
            IF resp.Result.isNil
            THEN <<>>
            ELSE <<Member("status",
                          JObj(<<Member("metadata", JObj(<<>>))>>
                               \o (IF resp.Result.Message = ""
                                   THEN <<>>
                                   ELSE <<Member("message", JStr(resp.Result.Message))>>)))>>
        patch ==
            IF resp.Patch = NoBytes
            THEN <<>>
            ELSE <<Member("patch", JBase64(resp.Patch))>>
    IN [bytes |-> JObj(<<Member("response",
                                JObj(<<Member("uid", JStr(resp.UID)),
                                       Member("allowed", JBool(resp.Allowed))>>
                                     \o status \o patch))>>),
        err |-> NilErr]

\* What the caller reads back from a response body: json.Unmarshal of the
\* bytes into an AdmissionReview, the inverse of JsonMarshalReview.
JsonUnmarshalReview(b) ==
    LET resp == Get(b, "response")
        st == IF HasKey(resp, "status") THEN Get(resp, "status") ELSE JNull
    IN [Response |->
           [UID |-> JsonUnmarshalString(resp, "uid"),
            Allowed |-> HasKey(resp, "allowed") /\ Get(resp, "allowed") = JBool(TRUE),
            Result |-> IF st.k = "obj"
                       THEN Status(JsonUnmarshalString(st, "message"))
                       ELSE NilStatus,
            Patch |-> IF HasKey(resp, "patch") /\ Get(resp, "patch").k = "base64"
                      THEN Get(resp, "patch").b
                      ELSE NoBytes]]

\* Whether bytes are a review with a response in it.
IsReview(b) == b.k = "obj" /\ HasKey(b, "response") /\ Get(b, "response").k = "obj"

-----------------------------------------------------------------------------
(* The requests of the model *)

Methods == {"POST", "GET", "PUT", "post"}
ContentTypes == {"application/json", "application/json; charset=utf-8", "text/plain", ""}
\* r.Body: what reading it yields, and the error ioutil.ReadAll returns
ReadErrs == {NilErr, NewErr("unexpected EOF")}
LongUID == "0123456789abcdef-0123456789abcdef-0123456789abcdef-0123456789abcdef"
Review(members) == JObj(members)
Bodies ==
    { Garbage,
      JArr(<<>>),
      Review(<<>>),
      Review(<<Member("request", JNull)>>),
      Review(<<Member("request", JStr("x"))>>),
      Review(<<Member("request", JObj(<<>>))>>),
      Review(<<Member("request", JObj(<<Member("uid", JStr(""))>>))>>),
      Review(<<Member("request", JObj(<<Member("uid", JStr("abc-1")),
                                        Member("object", JObj(<<>>))>>))>>),
      Review(<<Member("kind", JStr("AdmissionReview")),
               Member("request", JObj(<<Member("uid", JStr(LongUID))>>))>>) }

Requests ==
    [Method : Methods, ContentType : ContentTypes, Body : Bodies, ReadErr : ReadErrs]

\* The errors an admitFunc returns: nil, or an error with a text (possibly empty).
AdmitErrs == {NilErr, NewErr("image not allowed"), NewErr("")}

-----------------------------------------------------------------------------
(* http.ResponseWriter: the status code in effect (0: header not written    *)
(* yet), the bodies handed to Write, and those that reached the client.     *)

NewResponseWriter == [code |-> 0, written |-> <<>>, delivered |-> <<>>]

\* Mutant: every call sets the status code.
WriteHeaderOverwrites(rw, code) == [rw EXCEPT !.code = code]

\* w.WriteHeader(code): only the first call sets the status code.
WriteHeader(rw, code) ==
    IF rw.code # 0 THEN rw ELSE [rw EXCEPT !.code = code]

\* w.Write(b): writes the header with 200 if none was written, then the body;
\* ok is whether the transport took the bytes.
Write(rw, b, ok) ==
    LET rw1 == WriteHeader(rw, StatusOK)
    IN [rw1 EXCEPT !.written = Append(@, b),
                   !.delivered = IF ok THEN Append(@, b) ELSE @]

NoReturn == [bytes |-> NoBytes, err |-> NilErr]
NewReview == [Response |-> [UID |-> "", Allowed |-> FALSE, Result |-> NilStatus,
                            Patch |-> NoBytes]]

\* serializer.NewCodecFactory(runtime.NewScheme()).UniversalDeserializer(): built
\* once, over a scheme with no types registered.
NewUniversalDeserializer == [scheme |-> {}]

\* The state when the handlers H have been entered, each with a request of Q.
InitFor(H, Q) ==
    /\ pc = [h \in H |-> "start"]
    /\ r \in [H -> Q]
    /\ w = [h \in H |-> NewResponseWriter]
    /\ body = [h \in H |-> NoBytes]
    /\ admissionReviewReq = [h \in H |-> [Request |-> NilRequest]]
    /\ admissionReviewResponse = [h \in H |-> NewReview]
    /\ patchOps = [h \in H |-> NilSlice]
    /\ err = [h \in H |-> NilErr]
    /\ ret = [h \in H |-> NoReturn]
    /\ writeErr = [h \in H |-> NilErr]
    /\ admitCalls = [h \in H |-> <<>>]
    /\ decodeCalls = [h \in H |-> 0]
    /\ universalDeserializer = NewUniversalDeserializer

Init == InitFor({"h1"}, Requests)

-----------------------------------------------------------------------------
(* doServeAdmitFunc *)

Goto(h, loc) == pc' = [pc EXCEPT ![h] = loc]

\* return nil, <error>: back in serveAdmitFunc with the error.
ReturnErr(h, msg) ==
    /\ ret' = [ret EXCEPT ![h] = [bytes |-> NoBytes, err |-> NewErr(msg)]]
    /\ Goto(h, "returned")

\* Mutant: the rejecting check also writes the error as the body, as
\* http.Error does.
RejectWithBody(rw, code, msg) == Write(WriteHeader(rw, code), Text(msg), TRUE)

\* What a rejecting check does to the ResponseWriter before it returns the
\* error: it sets the status code, and writes no body.
RejectWith(rw, code, msg) == WriteHeader(rw, code)

\* w.WriteHeader(code); return nil, <error>
Reject(h, code, msg) ==
    /\ w' = [w EXCEPT ![h] = RejectWith(@, code, msg)]
    /\ ReturnErr(h, msg)

\* Mutant: the method compared without regard to case.
MethodAllowedAnyCase(m) == m \in {"POST", "post"}

MethodAllowed(m) == m = MethodPost

\* Mutant: the content type is looked at before the method.
CheckMethodAfterContentType(h) ==
    /\ pc[h] = "start"
    /\ IF r[h].ContentType # jsonContentType
       THEN Reject(h, StatusBadRequest,
                   "unsupported content type " \o r[h].ContentType
                       \o ", only " \o jsonContentType \o " is supported")
       ELSE IF r[h].Method # MethodPost
            THEN Reject(h, StatusMethodNotAllowed,
                        "invalid method " \o r[h].Method
                            \o ", only POST requests are allowed")
            ELSE Goto(h, "readBody") /\ UNCHANGED <<w, ret>>
    /\ UNCHANGED <<r, body, admissionReviewReq, admissionReviewResponse, patchOps,
                   err, writeErr, admitCalls, decodeCalls>>

\* if r.Method != http.MethodPost { ... }
CheckMethod(h) ==
    /\ pc[h] = "start"
    /\ IF ~MethodAllowed(r[h].Method)
       THEN Reject(h, StatusMethodNotAllowed,
                   "invalid method " \o r[h].Method \o ", only POST requests are allowed")
       ELSE Goto(h, "readBody") /\ UNCHANGED <<w, ret>>
    /\ UNCHANGED <<r, body, admissionReviewReq, admissionReviewResponse, patchOps,
                   err, writeErr, admitCalls, decodeCalls>>

\* body, err := ioutil.ReadAll(r.Body)
ReadBody(h) ==
    /\ pc[h] = "readBody"
    /\ IF ~r[h].ReadErr.isNil
       THEN /\ Reject(h, StatusBadRequest,
                      "could not read request body: " \o r[h].ReadErr.msg)
            /\ UNCHANGED body
       ELSE /\ body' = [body EXCEPT ![h] = r[h].Body]
            /\ Goto(h, "checkContentType")
            /\ UNCHANGED <<w, ret>>
    /\ UNCHANGED <<r, admissionReviewReq, admissionReviewResponse, patchOps,
                   err, writeErr, admitCalls, decodeCalls>>

\* Mutant: media-type parameters are accepted.
ContentTypeAcceptedWithParams(contentType) ==
    contentType \in {"application/json", "application/json; charset=utf-8"}

ContentTypeAccepted(contentType) == contentType = jsonContentType

\* if contentType := r.Header.Get("Content-Type"); contentType != jsonContentType { ... }
CheckContentType(h) ==
    /\ pc[h] = "checkContentType"
    /\ IF ~ContentTypeAccepted(r[h].ContentType)
       THEN Reject(h, StatusBadRequest,
                   "unsupported content type " \o r[h].ContentType
                       \o ", only " \o jsonContentType \o " is supported")
       ELSE Goto(h, "decode") /\ UNCHANGED <<w, ret>>
    /\ UNCHANGED <<r, body, admissionReviewReq, admissionReviewResponse, patchOps,
                   err, writeErr, admitCalls, decodeCalls>>

\* Mutant: the nil check is missing.
RequestIsNilUnchecked(review) == FALSE

RequestIsNil(review) == review.Request.isNil

\* universalDeserializer.Decode(body, nil, &admissionReviewReq), then the
\* check of admissionReviewReq.Request == nil.
Decode(h) ==
    /\ pc[h] = "decode"
    /\ decodeCalls' = [decodeCalls EXCEPT ![h] = @ + 1]
    /\ LET d == UniversalDeserializerDecode(body[h]) IN
       IF ~d.err.isNil
       THEN /\ Reject(h, StatusBadRequest, "could not deserialize request: " \o d.err.msg)
            /\ UNCHANGED admissionReviewReq
       ELSE /\ admissionReviewReq' =
                   [admissionReviewReq EXCEPT ![h] = [Request |-> d.Request]]
            /\ IF RequestIsNil([Request |-> d.Request])
               THEN Reject(h, StatusBadRequest, "malformed admission review: request is nil")
               ELSE Goto(h, "buildResponse") /\ UNCHANGED <<w, ret>>
    /\ UNCHANGED <<r, body, admissionReviewResponse, patchOps, err, writeErr, admitCalls>>

\* Mutant: the response under construction is one package-level variable, which
\* every handler reads and writes.
BuildResponseShared(h) ==
    /\ pc[h] = "buildResponse"
    /\ admissionReviewResponse' =
           [g \in Handlers |-> [Response |-> [UID |-> admissionReviewReq[h].Request.UID,
                                              Allowed |-> FALSE,
                                              Result |-> NilStatus,
                                              Patch |-> NoBytes]]]
    /\ Goto(h, "callAdmit")
    /\ UNCHANGED <<r, w, body, admissionReviewReq, patchOps, err, ret, writeErr,
                   admitCalls, decodeCalls>>

\* admissionReviewResponse := v1beta1.AdmissionReview{Response: &v1beta1.AdmissionResponse{UID: ...}}
BuildResponse(h) ==
    /\ pc[h] = "buildResponse"
    /\ admissionReviewResponse' =
           [admissionReviewResponse EXCEPT
               ![h] = [Response |-> [UID |-> admissionReviewReq[h].Request.UID,
                                     Allowed |-> FALSE,
                                     Result |-> NilStatus,
                                     Patch |-> NoBytes]]]
    /\ Goto(h, "callAdmit")
    /\ UNCHANGED <<r, w, body, admissionReviewReq, patchOps, err, ret, writeErr,
                   admitCalls, decodeCalls>>

\* Mutant: the admitFunc is invoked a second time.
CallAdmitTwice(h) ==
    /\ pc[h] = "callAdmit"
    /\ admitCalls' = [admitCalls EXCEPT
                         ![h] = Append(Append(@, admissionReviewReq[h].Request),
                                       admissionReviewReq[h].Request)]
    /\ Goto(h, "inAdmit")
    /\ UNCHANGED <<r, w, body, admissionReviewReq, admissionReviewResponse, patchOps,
                   err, ret, writeErr, decodeCalls>>

\* patchOps, err = admit(admissionReviewReq.Request): the call.
CallAdmit(h) ==
    /\ pc[h] = "callAdmit"
    /\ admitCalls' = [admitCalls EXCEPT ![h] = Append(@, admissionReviewReq[h].Request)]
    /\ Goto(h, "inAdmit")
    /\ UNCHANGED <<r, w, body, admissionReviewReq, admissionReviewResponse, patchOps,
                   err, ret, writeErr, decodeCalls>>

\* The UIDs the admitFunc may leave in the request it was handed a pointer to.
AdmitLeavesUID(uid) == {uid, "overwritten-by-admit"}

\* Mutant: when the admitFunc returns an error it is called once more.
AdmitReturnsRetry(h) ==
    /\ pc[h] = "inAdmit"
    /\ \E ops \in PatchOpLists, e \in AdmitErrs,
          uid \in AdmitLeavesUID(admissionReviewReq[h].Request.UID) :
          /\ patchOps' = [patchOps EXCEPT ![h] = ops]
          /\ err' = [err EXCEPT ![h] = e]
          /\ admissionReviewReq' = [admissionReviewReq EXCEPT ![h].Request.UID = uid]
          /\ IF ~e.isNil /\ Len(admitCalls[h]) < 2
             THEN Goto(h, "callAdmit")
             ELSE Goto(h, "encode")
    /\ UNCHANGED <<r, w, body, admissionReviewResponse, ret, writeErr, admitCalls,
                   decodeCalls>>

\* patchOps, err = admit(admissionReviewReq.Request): the admitFunc returns any
\* pair of operations and error, having possibly written to the request.
AdmitReturns(h) ==
    /\ pc[h] = "inAdmit"
    /\ \E ops \in PatchOpLists, e \in AdmitErrs,
          uid \in AdmitLeavesUID(admissionReviewReq[h].Request.UID) :
          /\ patchOps' = [patchOps EXCEPT ![h] = ops]
          /\ err' = [err EXCEPT ![h] = e]
          /\ admissionReviewReq' = [admissionReviewReq EXCEPT ![h].Request.UID = uid]
    /\ Goto(h, "encode")
    /\ UNCHANGED <<r, w, body, admissionReviewResponse, ret, writeErr, admitCalls,
                   decodeCalls>>

\* Mutant: the UID is read from the request when the response is encoded, after
\* the admitFunc has run.
ResponseUIDReadLate(h) == admissionReviewReq[h].Request.UID

\* The UID of the response that gets encoded: the one stored when the response
\* was constructed.
ResponseUID(h) == admissionReviewResponse[h].Response.UID

\* Mutant: a fixed denial message in place of the error's text.
DenialStatusFixed(e) == Status("denied")

\* Result = &metav1.Status{Message: err.Error()}
DenialStatus(e) == Status(e.msg)

\* Mutant: the operations are marshaled before err is looked at.
EncodeMarshalsFirst(h) ==
    /\ pc[h] = "encode"
    /\ LET m == JsonMarshalPatchOps(patchOps[h]) IN
       IF ~m.err.isNil
       THEN /\ Reject(h, StatusInternalServerError,
                      "could not marshal JSON patch: " \o m.err.msg)
            /\ UNCHANGED admissionReviewResponse
       ELSE /\ admissionReviewResponse' =
                   [admissionReviewResponse EXCEPT
                       ![h].Response =
                           IF ~err[h].isNil
                           THEN [UID |-> ResponseUID(h),
                                 Allowed |-> FALSE,
                                 Result |-> DenialStatus(err[h]),
                                 Patch |-> m.bytes]
                           ELSE [UID |-> ResponseUID(h),
                                 Allowed |-> TRUE,
                                 Result |-> @.Result,
                                 Patch |-> m.bytes]]
            /\ Goto(h, "marshalResponse")
            /\ UNCHANGED <<w, ret>>
    /\ UNCHANGED <<r, body, admissionReviewReq, patchOps, err, writeErr, admitCalls,
                   decodeCalls>>

\* Mutant: a patch that cannot be marshaled is dropped and the request allowed.
EncodeDropsPatch(h) ==
    /\ pc[h] = "encode"
    /\ IF ~err[h].isNil
       THEN admissionReviewResponse' =
                [admissionReviewResponse EXCEPT
                    ![h].Response = [UID |-> ResponseUID(h),
                                     Allowed |-> FALSE,
                                     Result |-> DenialStatus(err[h]),
                                     Patch |-> @.Patch]]
       ELSE admissionReviewResponse' =
                [admissionReviewResponse EXCEPT
                    ![h].Response = [UID |-> ResponseUID(h),
                                     Allowed |-> TRUE,
                                     Result |-> @.Result,
                                     Patch |-> JsonMarshalPatchOps(patchOps[h]).bytes]]
    /\ Goto(h, "marshalResponse")
    /\ UNCHANGED <<r, w, ret, body, admissionReviewReq, patchOps, err, writeErr,
                   admitCalls, decodeCalls>>

\* if err != nil { deny } else { patchBytes, err := json.Marshal(patchOps); ... allow }
Encode(h) ==
    /\ pc[h] = "encode"
    /\ IF ~err[h].isNil
       THEN /\ admissionReviewResponse' =
                   [admissionReviewResponse EXCEPT
                       ![h].Response = [UID |-> ResponseUID(h),
                                        Allowed |-> FALSE,
                                        Result |-> DenialStatus(err[h]),
                                        Patch |-> @.Patch]]
            /\ Goto(h, "marshalResponse")
            /\ UNCHANGED <<w, ret>>
       ELSE LET m == JsonMarshalPatchOps(patchOps[h]) IN
            IF ~m.err.isNil
            THEN /\ Reject(h, StatusInternalServerError,
                           "could not marshal JSON patch: " \o m.err.msg)
                 /\ UNCHANGED admissionReviewResponse
            ELSE /\ admissionReviewResponse' =
                        [admissionReviewResponse EXCEPT
                            ![h].Response = [UID |-> ResponseUID(h),
                                             Allowed |-> TRUE,
                                             Result |-> @.Result,
                                             Patch |-> m.bytes]]
                 /\ Goto(h, "marshalResponse")
                 /\ UNCHANGED <<w, ret>>
    /\ UNCHANGED <<r, body, admissionReviewReq, patchOps, err, writeErr, admitCalls,
                   decodeCalls>>

\* bytes, err := json.Marshal(&admissionReviewResponse); return
MarshalResponse(h) ==
    /\ pc[h] = "marshalResponse"
    /\ LET m == JsonMarshalReview(admissionReviewResponse[h]) IN
       IF ~m.err.isNil
       THEN ReturnErr(h, "marshaling response: " \o m.err.msg)
       ELSE /\ ret' = [ret EXCEPT ![h] = [bytes |-> m.bytes, err |-> NilErr]]
            /\ Goto(h, "returned")
    /\ UNCHANGED <<r, w, body, admissionReviewReq, admissionReviewResponse, patchOps,
                   err, writeErr, admitCalls, decodeCalls>>

-----------------------------------------------------------------------------
(* serveAdmitFunc *)

\* Mutant: a fixed body in place of the error's text.
ErrorBodyFixed(e) == Text("Internal Server Error")

\* []byte(err.Error())
ErrorBody(e) == Text(e.msg)

\* What serveAdmitFunc does with the ResponseWriter once doServeAdmitFunc has
\* returned (result, ok: whether the transport takes the bytes).
ServeResult(rw, result, ok) ==
    IF ~result.err.isNil
    THEN Write(WriteHeader(rw, StatusInternalServerError), ErrorBody(result.err), ok)
    ELSE Write(rw, result.bytes, ok)

\* The error w.Write returns.
WriteErrs == {NilErr, NewErr("write: broken pipe")}

\* if bytes, err := doServeAdmitFunc(w, r, admit); err != nil { ... } else { ... }
WriteResponse(h) ==
    /\ pc[h] = "returned"
    /\ \E we \in WriteErrs :
          /\ w' = [w EXCEPT ![h] = ServeResult(@, ret[h], we.isNil)]
          /\ writeErr' = [writeErr EXCEPT ![h] = we]
    /\ Goto(h, "logWriteErr")
    /\ UNCHANGED <<r, body, admissionReviewReq, admissionReviewResponse, patchOps,
                   err, ret, admitCalls, decodeCalls>>

\* A wrapper that writes the body again when the write failed.
LogWriteErrRetries(h) ==
    /\ pc[h] = "logWriteErr"
    /\ IF writeErr[h].isNil
       THEN w' = w
       ELSE w' = [w EXCEPT ![h] = ServeResult(@, ret[h], TRUE)]
    /\ Goto(h, "done")
    /\ UNCHANGED <<r, body, admissionReviewReq, admissionReviewResponse, patchOps,
                   err, ret, writeErr, admitCalls, decodeCalls>>

\* if writeErr != nil { log.Printf(...) }; return
LogWriteErr(h) ==
    /\ pc[h] = "logWriteErr"
    /\ Goto(h, "done")
    /\ UNCHANGED <<r, w, body, admissionReviewReq, admissionReviewResponse, patchOps,
                   err, ret, writeErr, admitCalls, decodeCalls>>

Step(h) ==
    /\ \/ CheckMethod(h)
       \/ ReadBody(h)
       \/ CheckContentType(h)
       \/ Decode(h)
       \/ BuildResponse(h)
       \/ CallAdmit(h)
       \/ AdmitReturns(h)
       \/ Encode(h)
       \/ MarshalResponse(h)
       \/ WriteResponse(h)
       \/ LogWriteErr(h)
    /\ UNCHANGED universalDeserializer

Next == \E h \in Handlers : Step(h)

Spec == Init /\ [][Next]_vars

\* Every handler keeps running, and the admitFunc it called returns.
FairSpec == Spec /\ \A h \in AllHandlers : WF_vars(h \in Handlers /\ Step(h))

TypeOK ==
    /\ pc \in [Handlers -> {"start", "readBody", "checkContentType", "decode",
                            "buildResponse", "callAdmit", "inAdmit", "encode",
                            "marshalResponse", "returned", "logWriteErr", "done"}]
    /\ r \in [Handlers -> Requests]
    /\ \A h \in Handlers :
         /\ w[h].code \in {0, StatusOK, StatusBadRequest, StatusMethodNotAllowed,
                           StatusInternalServerError}
         /\ patchOps[h] \in PatchOpLists
         /\ err[h] \in AdmitErrs
         /\ decodeCalls[h] \in 0..1

-----------------------------------------------------------------------------
(* Vocabulary of the properties *)

\* What decoding the request's body yields.
Decoded(q) == UniversalDeserializerDecode(q.Body)

\* A valid request: POST, readable body, content type application/json, a
\* decodable envelope with a non-null inner request.
ValidRequest(q) ==
    /\ q.Method = "POST"
    /\ q.ReadErr.isNil
    /\ q.ContentType = "application/json"
    /\ Decoded(q).err.isNil
    /\ ~Decoded(q).Request.isNil

\* The body read off the request is a syntactically valid envelope whose inner
\* request is null or absent.
EmptyEnvelope(q) == q.ReadErr.isNil /\ Decoded(q).err.isNil /\ Decoded(q).Request.isNil

\* serveAdmitFunc has made its write.
Answered(h) == pc[h] \in {"logWriteErr", "done"}

\* The adapter has returned.
Returned(h) == pc[h] \in {"returned", "logWriteErr", "done"}

\* The one body handed to the transport is a response envelope; SentResponse is
\* the response the caller decodes from it.
SentEnvelope(h) == Len(w[h].written) = 1 /\ IsReview(w[h].written[1])
SentResponse(h) == JsonUnmarshalReview(w[h].written[1]).Response

\* The body reached the client unless the write failed.
DeliveredUnlessWriteFailed(h) ==
    w[h].delivered = IF writeErr[h].isNil THEN w[h].written ELSE <<>>

-----------------------------------------------------------------------------
(* C1  UID propagation.  For every valid request the uid of the response     *)
(* envelope - as stored when the response is constructed, as encoded by the  *)
(* adapter and as read back from the body written - equals the uid of the    *)
(* decoded request, for allow and deny and for the empty uid; it is in the   *)
(* response before the admitFunc is invoked and stays what was decoded        *)
(* whatever the admitFunc does to the request afterwards.                     *)
C1_UIDPropagation ==
    \A h \in Handlers :
        ValidRequest(r[h]) =>
            LET uid == Decoded(r[h]).Request.UID IN
            /\ admitCalls[h] # <<>> => admissionReviewResponse[h].Response.UID = uid
            /\ IsReview(ret[h].bytes) => JsonUnmarshalReview(ret[h].bytes).Response.UID = uid
            /\ Answered(h) /\ ret[h].err.isNil => SentEnvelope(h) /\ SentResponse(h).UID = uid

\* A denial with the empty uid was written after the admitFunc overwrote the
\* uid of the request it was handed.
C1_Witness ==
    \E h \in Handlers :
        /\ ValidRequest(r[h]) /\ pc[h] = "done"
        /\ Decoded(r[h]).Request.UID = ""
        /\ admissionReviewReq[h].Request.UID # ""
        /\ SentEnvelope(h) /\ ~SentResponse(h).Allowed

-----------------------------------------------------------------------------
\* Every operation of the list can be marshaled.
Marshalable(ops) == JsonMarshalPatchOps(ops).err.isNil

\* Every value of the list is one JSON has a form for: no value, or a string.
JsonValued(ops) ==
    \A i \in 1..Len(ops.elems) : ops.elems[i].Value.g \in {"nil", "string"}

\* The two lists hold the same operations (op and path) in the same order.
SameOpsAndPaths(a, b) ==
    /\ a.isNil = b.isNil
    /\ Len(a.elems) = Len(b.elems)
    /\ \A i \in 1..Len(a.elems) :
          a.elems[i].Op = b.elems[i].Op /\ a.elems[i].Path = b.elems[i].Path

\* The response written is an allow whose patch decodes to exactly ops.
AllowedWithPatch(h, ops) ==
    /\ w[h].code = StatusOK
    /\ SentEnvelope(h)
    /\ SentResponse(h).Allowed
    /\ SentResponse(h).Patch # NoBytes
    /\ JsonUnmarshalPatchOps(SentResponse(h).Patch) = ops

(* C2 as stated: for every valid request where the admitFunc returns          *)
(* (ops, nil), the response has status 200, allowed=true and a patch that      *)
(* JSON-decodes back to exactly ops.                                           *)
C2_AsStated ==
    \A h \in Handlers :
        ValidRequest(r[h]) /\ Answered(h) /\ err[h].isNil =>
            AllowedWithPatch(h, patchOps[h])

(* C2  Allow path round-trip, amended.  For every valid request where the      *)
(* admitFunc returns (ops, nil) and json.Marshal(ops) succeeds, the response   *)
(* is handed to the transport with status 200 (and delivered unless the write  *)
(* fails), has allowed=true and a patch that decodes to the same operations    *)
(* (op, path) in the same order, and to exactly ops when every value is a JSON *)
(* value.                                                                      *)
C2_AllowRoundTrip ==
    \A h \in Handlers :
        ValidRequest(r[h]) /\ Answered(h) /\ err[h].isNil /\ Marshalable(patchOps[h]) =>
            /\ w[h].code = StatusOK
            /\ SentEnvelope(h)
            /\ DeliveredUnlessWriteFailed(h)
            /\ SentResponse(h).Allowed
            /\ SentResponse(h).Patch # NoBytes
            /\ SameOpsAndPaths(JsonUnmarshalPatchOps(SentResponse(h).Patch), patchOps[h])
            /\ JsonValued(patchOps[h]) => AllowedWithPatch(h, patchOps[h])

\* An allow was delivered whose patch holds two operations, one of them with
\* the empty string as its value.
C2_Witness ==
    \E h \in Handlers :
        /\ ValidRequest(r[h]) /\ pc[h] = "done" /\ err[h].isNil
        /\ Len(patchOps[h].elems) = 2
        /\ patchOps[h].elems[1] # patchOps[h].elems[2]
        /\ \E i \in 1..2 : patchOps[h].elems[i].Value = StringValue("")
        /\ JsonValued(patchOps[h])
        /\ w[h].delivered # <<>>
        /\ AllowedWithPatch(h, patchOps[h])

(* C3  Deny path.  For every valid request where the admitFunc returns         *)
(* (nil, err), the response has allowed=false and a denial message equal to    *)
(* err's text, and goes out with status 200.                                   *)
C3_DenyPath ==
    \A h \in Handlers :
        ValidRequest(r[h]) /\ Answered(h) /\ ~err[h].isNil /\ patchOps[h].isNil =>
            /\ w[h].code = StatusOK
            /\ SentEnvelope(h)
            /\ DeliveredUnlessWriteFailed(h)
            /\ ~SentResponse(h).Allowed
            /\ ~SentResponse(h).Result.isNil
            /\ SentResponse(h).Result.Message = err[h].msg

C3_Witness ==
    \E h \in Handlers :
        /\ ValidRequest(r[h]) /\ pc[h] = "done"
        /\ err[h] = NewErr("image not allowed") /\ patchOps[h].isNil
        /\ w[h].code = StatusOK /\ w[h].delivered # <<>>
        /\ ~SentResponse(h).Allowed
        /\ SentResponse(h).Result.Message = "image not allowed"

(* C4  For all non-POST methods the response status is 405, no envelope is     *)
(* decoded and the admitFunc is never invoked.                                 *)
C4_NonPost ==
    \A h \in Handlers :
        r[h].Method # "POST" =>
            /\ decodeCalls[h] = 0
            /\ admitCalls[h] = <<>>
            /\ Returned(h) => w[h].code = StatusMethodNotAllowed

C4_Witness ==
    \E h \in Handlers :
        /\ r[h].Method = "post" /\ pc[h] = "done"
        /\ w[h].code = StatusMethodNotAllowed
        /\ ValidRequest([r[h] EXCEPT !.Method = "POST"])

(* C5 as stated: for all requests with a content type other than exactly       *)
(* application/json the response status is 400 and the admitFunc is not        *)
(* invoked.                                                                    *)
C5_AsStated ==
    \A h \in Handlers :
        r[h].ContentType # "application/json" =>
            /\ admitCalls[h] = <<>>
            /\ Answered(h) => w[h].code = StatusBadRequest

(* C5  amended.  For all POST requests with a content type other than exactly  *)
(* application/json the response status is 400 and the admitFunc is not        *)
(* invoked (a request of another method is answered 405).                      *)
C5_ContentType ==
    \A h \in Handlers :
        r[h].Method = "POST" /\ r[h].ContentType # "application/json" =>
            /\ admitCalls[h] = <<>>
            /\ Answered(h) => w[h].code = StatusBadRequest

C5_Witness ==
    \E h \in Handlers :
        /\ r[h].ContentType = "application/json; charset=utf-8" /\ pc[h] = "done"
        /\ ValidRequest([r[h] EXCEPT !.ContentType = "application/json"])
        /\ w[h].code = StatusBadRequest

(* C6 as stated: for all syntactically valid envelopes whose inner request is  *)
(* null or absent the response status is 400 and the admitFunc is not invoked. *)
C6_AsStated ==
    \A h \in Handlers :
        EmptyEnvelope(r[h]) =>
            /\ admitCalls[h] = <<>>
            /\ Answered(h) => w[h].code = StatusBadRequest

(* C6  amended.  For all syntactically valid envelopes whose inner request is  *)
(* null or absent and that arrive in a POST request, the response status is    *)
(* 400, the admitFunc is not invoked and the body written is no envelope.      *)
C6_EmptyEnvelope ==
    \A h \in Handlers :
        r[h].Method = "POST" /\ EmptyEnvelope(r[h]) =>
            /\ admitCalls[h] = <<>>
            /\ Answered(h) => w[h].code = StatusBadRequest /\ ~SentEnvelope(h)

C6_Witness ==
    \E h \in Handlers :
        /\ r[h].Method = "POST" /\ r[h].ReadErr.isNil
        /\ r[h].ContentType = "application/json"
        /\ r[h].Body = Review(<<Member("request", JNull)>>)
        /\ decodeCalls[h] = 1
        /\ pc[h] = "done"
        /\ w[h].code = StatusBadRequest

(* C7  Single invocation.  The admitFunc is invoked at most once per request;  *)
(* it is invoked only after Decode has succeeded with a non-null inner         *)
(* request, with that request, so never for a request rejected by the method,  *)
(* body-read, content-type, decode or null-request check; and once a valid     *)
(* request has passed the call it has been invoked exactly once.               *)
C7_SingleInvocation ==
    \A h \in Handlers :
        /\ Len(admitCalls[h]) <= 1
        /\ admitCalls[h] # <<>> =>
              /\ ValidRequest(r[h])
              /\ decodeCalls[h] = 1
              /\ admitCalls[h][1] = Decoded(r[h]).Request
        /\ pc[h] \in {"start", "readBody", "checkContentType", "decode",
                      "buildResponse", "callAdmit"} => admitCalls[h] = <<>>
        /\ ValidRequest(r[h]) /\ (Returned(h) \/ pc[h] \in {"inAdmit", "encode", "marshalResponse"})
              => Len(admitCalls[h]) = 1

\* A valid request was answered with a denial, the admitFunc having been
\* invoked once.
C7_Witness ==
    \E h \in Handlers :
        /\ ValidRequest(r[h]) /\ pc[h] = "done"
        /\ ~err[h].isNil
        /\ Len(admitCalls[h]) = 1 /\ decodeCalls[h] = 1

\* The check of the request at which doServeAdmitFunc fails first, if any.
FirstFailure(h) ==
    IF r[h].Method # "POST" THEN "method"
    ELSE IF ~r[h].ReadErr.isNil THEN "body"
    ELSE IF r[h].ContentType # "application/json" THEN "contentType"
    ELSE IF ~Decoded(r[h]).err.isNil THEN "decode"
    ELSE IF Decoded(r[h]).Request.isNil THEN "nilRequest"
    ELSE "none"

(* C8  Failure status codes.  Whenever the adapter has failed, the status in   *)
(* effect after the wrapper's WriteHeader(500) is 405 for a wrong method, 400  *)
(* for an unreadable body, a wrong content type, an undecodable envelope or a  *)
(* null inner request, and 500 for a failure to marshal the patch or the       *)
(* response envelope; the wrapper leaves a code set by the adapter as it is.   *)
C8_FailureStatus ==
    \A h \in Handlers :
        Returned(h) /\ ~ret[h].err.isNil =>
            LET code == CASE FirstFailure(h) = "method" -> StatusMethodNotAllowed
                          [] FirstFailure(h) \in {"body", "contentType", "decode",
                                                  "nilRequest"} -> StatusBadRequest
                          [] OTHER -> StatusInternalServerError
            IN /\ Answered(h) => w[h].code = code
               /\ w[h].code \in {code, 0}
               /\ w[h].code = 0 => pc[h] = "returned" /\ code = StatusInternalServerError

\* The wrapper has written the error of a request with a wrong method, and the
\* status is still 405.
C8_Witness ==
    \E h \in Handlers :
        /\ pc[h] = "done" /\ ~ret[h].err.isNil
        /\ FirstFailure(h) = "method"
        /\ w[h].code = StatusMethodNotAllowed
        /\ Len(w[h].written) = 1

(* C9  Every request is answered.  Every request eventually ends with exactly  *)
(* one body handed to the transport (given that the handler keeps running and  *)
(* the admitFunc returns); at no time has more than one body been written, and *)
(* none is written before doServeAdmitFunc has returned: the adapter only sets *)
(* the status code and returns the error.                                      *)
C9_ExactlyOneWrite ==
    /\ <>(\A h \in Handlers : pc[h] = "done" /\ Len(w[h].written) = 1)
    /\ [](\A h \in Handlers :
             /\ Len(w[h].written) <= 1
             /\ ~Answered(h) => w[h].written = <<>>
             /\ Answered(h) => Len(w[h].written) = 1)

\* A request rejected by the adapter ended with its one body written.
C9_Witness ==
    \E h \in Handlers :
        /\ pc[h] = "done"
        /\ FirstFailure(h) = "contentType"
        /\ w[h].code = StatusBadRequest
        /\ Len(w[h].written) = 1 /\ w[h].delivered = w[h].written

(* C10  Body content.  When the adapter succeeds the wrapper writes exactly    *)
(* the bytes it returned, the JSON response envelope; when the adapter fails   *)
(* (405, 400 or 500) the body written is exactly the text of the error it      *)
(* returned, never an envelope.                                                *)
C10_BodyContent ==
    \A h \in Handlers :
        Answered(h) =>
            IF ret[h].err.isNil
            THEN /\ w[h].written = <<ret[h].bytes>>
                 /\ ret[h].bytes = JsonMarshalReview(admissionReviewResponse[h]).bytes
                 /\ SentEnvelope(h)
            ELSE /\ w[h].written = <<Text(ret[h].err.msg)>>
                 /\ ~SentEnvelope(h)
                 /\ w[h].code \in {StatusMethodNotAllowed, StatusBadRequest,
                                   StatusInternalServerError}
                 /\ FirstFailure(h) = "method" =>
                       w[h].written = <<Text("invalid method " \o r[h].Method
                                             \o ", only POST requests are allowed")>>

\* The text of the content-type error went out as the body of a 400.
C10_Witness ==
    \E h \in Handlers :
        /\ pc[h] = "done"
        /\ w[h].code = StatusBadRequest
        /\ w[h].delivered =
              <<Text("unsupported content type text/plain, only application/json is supported")>>

-----------------------------------------------------------------------------
\* The members of the response inside encoded envelope bytes.
EncodedResponse(b) == Get(b, "response")

(* C11  Exclusive outcome.  Every response envelope the adapter encodes        *)
(* carries exactly one of a denial (the status holding the error's text as     *)
(* its message) or a patch, never both and never neither, and allowed is true  *)
(* exactly when the patch is the one present; so for every pair the admitFunc  *)
(* returns: (nil, nil) and the empty list are allows with a patch (null, []),  *)
(* operations together with an error are a denial without a patch.  The same   *)
(* holds of the response value before it is encoded.                           *)
C11_ExclusiveOutcome ==
    \A h \in Handlers :
        /\ IsReview(ret[h].bytes) =>
              LET resp == EncodedResponse(ret[h].bytes)
                  back == JsonUnmarshalReview(ret[h].bytes).Response
              IN /\ HasKey(resp, "status") # HasKey(resp, "patch")
                 /\ back.Allowed = HasKey(resp, "patch")
                 /\ back.Result.isNil # (back.Patch = NoBytes)
                 /\ back.Allowed = err[h].isNil
                 /\ ~back.Allowed => back.Result.Message = err[h].msg
        /\ pc[h] = "marshalResponse" =>
              LET resp == admissionReviewResponse[h].Response
              IN /\ resp.Result.isNil # (resp.Patch = NoBytes)
                 /\ resp.Allowed = (resp.Patch # NoBytes)

\* The admitFunc returned operations together with an error, and the envelope
\* encoded is a denial without a patch.
C11_Witness ==
    \E h \in Handlers :
        /\ Returned(h) /\ IsReview(ret[h].bytes)
        /\ Len(patchOps[h].elems) = 2 /\ ~err[h].isNil
        /\ HasKey(EncodedResponse(ret[h].bytes), "status")
        /\ ~HasKey(EncodedResponse(ret[h].bytes), "patch")

\* The admitFunc returned (nil, nil), and the envelope encoded is an allow
\* whose patch is the JSON text null.
C11_WitnessNilNil ==
    \E h \in Handlers :
        /\ Returned(h) /\ IsReview(ret[h].bytes)
        /\ patchOps[h].isNil /\ err[h].isNil
        /\ JsonUnmarshalReview(ret[h].bytes).Response.Allowed
        /\ JsonUnmarshalReview(ret[h].bytes).Response.Patch = JNull

-----------------------------------------------------------------------------
\* The position of a handler in the code, in program order.
Rank(loc) ==
    CASE loc = "start" -> 0
      [] loc = "readBody" -> 1
      [] loc = "checkContentType" -> 2
      [] loc = "decode" -> 3
      [] loc = "buildResponse" -> 4
      [] loc = "callAdmit" -> 5
      [] loc = "inAdmit" -> 6
      [] loc = "encode" -> 7
      [] loc = "marshalResponse" -> 8
      [] loc = "returned" -> 9
      [] loc = "logWriteErr" -> 10
      [] OTHER -> 11

\* The state of the request: 1 Received (being validated), 2 Validated (to be
\* decoded), 3 Decoded (response constructed, admitFunc called), 4 Decided
\* (outcome being encoded), 5 Encoded (the adapter returned the bytes), 6 Sent
\* (the bytes were handed to the transport), 7 Failed (the adapter returned an
\* error).
StageOf(h) ==
    IF Returned(h) /\ ~ret[h].err.isNil THEN 7
    ELSE CASE pc[h] \in {"start", "readBody", "checkContentType"} -> 1
           [] pc[h] = "decode" -> 2
           [] pc[h] \in {"buildResponse", "callAdmit", "inAdmit"} -> 3
           [] pc[h] \in {"encode", "marshalResponse"} -> 4
           [] pc[h] = "returned" -> 5
           [] OTHER -> 6

\* The stage in which the first failing check of the request runs (0: none).
FailingStage(h) ==
    CASE FirstFailure(h) \in {"method", "body", "contentType"} -> 1
      [] FirstFailure(h) \in {"decode", "nilRequest"} -> 2
      [] OTHER -> 0

(* C12  Per-request state machine.  Each request moves through Received,       *)
(* Validated, Decoded, Decided, Encoded, Sent one stage at a time and in that  *)
(* order, leaving the path only by a step into Failed, taken from the stage of *)
(* the first failing check; no position of the code is entered twice; after    *)
(* the failure no later stage runs (no decode after a validation failure, no   *)
(* admitFunc after a validation or decode failure, no envelope after a         *)
(* patch-marshal failure, the error and the status code stay); Sent and Failed *)
(* are never left.                                                             *)
C12_StateMachine ==
    /\ [](\A h \in Handlers :
             /\ FailingStage(h) = 1 => decodeCalls[h] = 0
             /\ FailingStage(h) # 0 => admitCalls[h] = <<>> /\ StageOf(h) \in {1, 2, 7}
             /\ StageOf(h) = 7 => ret[h].bytes = NoBytes /\ w[h].code # 0
             /\ StageOf(h) \in {5, 6} => IsReview(ret[h].bytes))
    /\ [][\A h \in Handlers :
             /\ pc'[h] # pc[h] => Rank(pc'[h]) > Rank(pc[h])
             /\ \/ StageOf(h)' = StageOf(h)
                \/ StageOf(h)' = StageOf(h) + 1 /\ StageOf(h) < 6
                \/ /\ StageOf(h)' = 7
                   /\ StageOf(h) \in {1, 2, 4}
                   /\ FailingStage(h) \in {0, StageOf(h)}
                   /\ FailingStage(h) = 0 => StageOf(h) = 4
             /\ StageOf(h) \in {6, 7} =>
                   /\ StageOf(h)' = StageOf(h)
                   /\ UNCHANGED <<ret, admitCalls, decodeCalls, admissionReviewReq,
                                  admissionReviewResponse, patchOps, err, body>>
                   /\ w'[h].code = w[h].code
             /\ StageOf(h) = 6 => w'[h] = w[h]]_vars

\* A request failed in Decided, on marshaling the patch, after the admitFunc had
\* been called once; it ended in Failed with 500.
C12_Witness ==
    \E h \in Handlers :
        /\ pc[h] = "done" /\ StageOf(h) = 7
        /\ Len(admitCalls[h]) = 1
        /\ w[h].code = StatusInternalServerError
        /\ ret[h].bytes = NoBytes

-----------------------------------------------------------------------------
\* The list holds a value of a type encoding/json cannot marshal.
HoldsChan(ops) == \E i \in 1..Len(ops.elems) : ops.elems[i].Value = ChanValue

PatchMarshalError == "could not marshal JSON patch: json: unsupported type: chan int"

(* C13  Patch-marshal failure is an internal fault.  When the admitFunc        *)
(* returns operations with no error and marshaling them fails, the adapter     *)
(* sets 500 and returns the error without encoding an envelope, and the        *)
(* request ends with HTTP 500 and the error text as its body: it is never      *)
(* answered with an envelope, neither an allow without a patch nor a denial.   *)
C13_PatchMarshalFailure ==
    \A h \in Handlers :
        ValidRequest(r[h]) /\ Rank(pc[h]) >= 7 /\ err[h].isNil /\ HoldsChan(patchOps[h]) =>
            /\ pc[h] # "marshalResponse"
            /\ admissionReviewResponse[h].Response.Patch = NoBytes
            /\ ~admissionReviewResponse[h].Response.Allowed
            /\ Returned(h) =>
                  /\ ret[h] = [bytes |-> NoBytes, err |-> NewErr(PatchMarshalError)]
                  /\ w[h].code = StatusInternalServerError
            /\ Answered(h) =>
                  /\ w[h].written = <<Text(PatchMarshalError)>>
                  /\ ~SentEnvelope(h)
                  /\ DeliveredUnlessWriteFailed(h)

\* Two operations were returned without an error, the second one cannot be
\* marshaled, and the 500 with the error text was delivered.
C13_Witness ==
    \E h \in Handlers :
        /\ ValidRequest(r[h]) /\ pc[h] = "done" /\ err[h].isNil
        /\ Len(patchOps[h].elems) = 2
        /\ patchOps[h].elems[1].Value = StringValue("bar")
        /\ patchOps[h].elems[2].Value = ChanValue
        /\ w[h].code = StatusInternalServerError
        /\ w[h].delivered = <<Text(PatchMarshalError)>>

-----------------------------------------------------------------------------
(* Two requests handled concurrently: the server runs one goroutine per       *)
(* request, and their steps interleave in any order.                          *)

ConcRequests ==
    {q \in Requests :
        /\ q.Method \in {"POST", "GET"}
        /\ q.ContentType \in {"application/json", "text/plain"}
        /\ q.ReadErr.isNil
        /\ q.Body \in {Review(<<Member("request", JNull)>>),
                       Review(<<Member("request", JObj(<<Member("uid", JStr(""))>>))>>),
                       Review(<<Member("request", JObj(<<Member("uid", JStr("abc-1")),
                                                         Member("object", JObj(<<>>))>>))>>)}}

ConcPatchOpLists ==
    {NilSlice,
     Slice(<<patchOperation("add", "/spec/foo", StringValue("bar"))>>),
     Slice(<<patchOperation("add", "/spec/foo", ChanValue)>>)}

ConcAdmitErrs == {NilErr, NewErr("image not allowed")}

InitConc == InitFor(AllHandlers, ConcRequests)

\* A step of one of the handlers, the admitFunc returning one of the results above.
NextConc ==
    /\ Next
    /\ \A h \in AllHandlers : patchOps'[h] \in ConcPatchOpLists /\ err'[h] \in ConcAdmitErrs

SpecConc == InitConc /\ [][NextConc]_vars

\* The check at which request q fails first, if any.
FirstFailureOf(q) ==
    IF q.Method # "POST" THEN "method"
    ELSE IF ~q.ReadErr.isNil THEN "body"
    ELSE IF q.ContentType # "application/json" THEN "contentType"
    ELSE IF ~Decoded(q).err.isNil THEN "decode"
    ELSE IF Decoded(q).Request.isNil THEN "nilRequest"
    ELSE "none"

\* The answer a request gets when it is handled alone, from the request and
\* from what the admitFunc returns for it: the status code and the body.
AnswerAlone(q, ops, e) ==
    LET allow == [Response |-> [UID |-> Decoded(q).Request.UID, Allowed |-> TRUE,
                                Result |-> NilStatus,
                                Patch |-> JsonMarshalPatchOps(ops).bytes]]
        deny == [Response |-> [UID |-> Decoded(q).Request.UID, Allowed |-> FALSE,
                               Result |-> Status(e.msg), Patch |-> NoBytes]]
    IN CASE FirstFailureOf(q) = "method" ->
              [code |-> StatusMethodNotAllowed,
               body |-> Text("invalid method " \o q.Method
                             \o ", only POST requests are allowed")]
         [] FirstFailureOf(q) = "body" ->
              [code |-> StatusBadRequest,
               body |-> Text("could not read request body: " \o q.ReadErr.msg)]
         [] FirstFailureOf(q) = "contentType" ->
              [code |-> StatusBadRequest,
               body |-> Text("unsupported content type " \o q.ContentType
                             \o ", only application/json is supported")]
         [] FirstFailureOf(q) = "decode" ->
              [code |-> StatusBadRequest,
               body |-> Text("could not deserialize request: " \o Decoded(q).err.msg)]
         [] FirstFailureOf(q) = "nilRequest" ->
              [code |-> StatusBadRequest,
               body |-> Text("malformed admission review: request is nil")]
         [] OTHER ->
              IF ~e.isNil
              THEN [code |-> StatusOK, body |-> JsonMarshalReview(deny).bytes]
              ELSE IF HoldsChan(ops)
              THEN [code |-> StatusInternalServerError, body |-> Text(PatchMarshalError)]
              ELSE [code |-> StatusOK, body |-> JsonMarshalReview(allow).bytes]

\* Everything a handler owns.
Own(h) ==
    <<pc[h], r[h], w[h], body[h], admissionReviewReq[h],
      admissionReviewResponse[h], patchOps[h], err[h], ret[h], writeErr[h],
      admitCalls[h], decodeCalls[h]>>


(* C14  Request isolation under concurrency.  With two requests handled        *)
(* concurrently, in every interleaving of their steps, each request's answer   *)
(* (status code, body and so response uid, allow or deny, patch or message) is *)
(* the one it gets when handled alone, a function of its own request and of    *)
(* what the admitFunc returned for it; every step changes the state of one     *)
(* handler only; and the package-level deserializer is never written.          *)
C14_Isolation ==
    /\ [](\A h \in Handlers :
             Answered(h) =>
                 LET alone == AnswerAlone(r[h], patchOps[h], err[h])
                 IN /\ w[h].code = alone.code
                    /\ w[h].written = <<alone.body>>
                    /\ DeliveredUnlessWriteFailed(h))
    /\ [][\E h \in Handlers : \A g \in Handlers \ {h} : Own(g)' = Own(g)]_vars
    /\ [](universalDeserializer = NewUniversalDeserializer)
    /\ [][universalDeserializer' = universalDeserializer]_vars

\* One request has been answered with a denial carrying its empty uid while
\* the admitFunc of the other, whose uid is abc-1, is still running.
C14_Witness ==
    /\ Handlers = AllHandlers
    /\ pc["h1"] = "inAdmit"
    /\ Decoded(r["h1"]).Request.UID = "abc-1"
    /\ admissionReviewResponse["h1"].Response.UID = "abc-1"
    /\ pc["h2"] = "done"
    /\ ValidRequest(r["h2"])
    /\ SentEnvelope("h2")
    /\ SentResponse("h2").UID = ""
    /\ ~SentResponse("h2").Allowed


(* C15  Transport write failure is swallowed.  Once the single body write has  *)
(* failed, on the success path or on the failure path, the handler only        *)
(* terminates: no further write is attempted, the status code stays what it    *)
(* was, nothing reaches the client, and neither the adapter (its decode, its   *)
(* result) nor the admitFunc runs again.                                       *)
WriteFailed(h) == pc[h] \in {"logWriteErr", "done"} /\ ~writeErr[h].isNil

C15_WriteFailureSwallowed ==
    /\ [](\A h \in Handlers :
             WriteFailed(h) =>
                 /\ Len(w[h].written) = 1
                 /\ w[h].delivered = << >>
                 /\ w[h].code = (IF FirstFailure(h) = "none" /\ ret[h].err.isNil
                                 THEN StatusOK
                                 ELSE IF FirstFailure(h) = "method"
                                      THEN StatusMethodNotAllowed
                                      ELSE IF FirstFailure(h) = "none"
                                           THEN StatusInternalServerError
                                           ELSE StatusBadRequest)
                 /\ Len(admitCalls[h]) <= 1
                 /\ decodeCalls[h] <= 1)
    /\ [][\A h \in Handlers :
             WriteFailed(h) =>
                 /\ pc'[h] = "done"
                 /\ w'[h] = w[h]
                 /\ ret'[h] = ret[h]
                 /\ writeErr'[h] = writeErr[h]
                 /\ admitCalls'[h] = admitCalls[h]
                 /\ decodeCalls'[h] = decodeCalls[h]
                 /\ admissionReviewResponse'[h] = admissionReviewResponse[h]]_vars

\* The write of an error text failed after a 400 was set, and the handler has ended.
C15_Witness ==
    \E h \in Handlers :
        /\ pc[h] = "done"
        /\ ~writeErr[h].isNil
        /\ ~ret[h].err.isNil
        /\ w[h].code = StatusBadRequest
        /\ w[h].written = <<ErrorBody(ret[h].err)>>
        /\ w[h].delivered = << >>

\* The write of an envelope failed, and the handler has ended.
C15_WitnessSuccessPath ==
    \E h \in Handlers :
        /\ pc[h] = "done"
        /\ ~writeErr[h].isNil
        /\ ret[h].err.isNil
        /\ Len(admitCalls[h]) = 1
        /\ w[h].code = StatusOK
        /\ w[h].written = <<ret[h].bytes>>
        /\ w[h].delivered = << >>


\* The checks request q violates, each judged on its own.
Violated(q) ==
    {c \in {"method", "body", "contentType", "decode", "nilRequest"} :
        CASE c = "method"      -> q.Method # "POST"
          [] c = "body"        -> ~q.ReadErr.isNil
          [] c = "contentType" -> q.ContentType # "application/json"
          [] c = "decode"      -> ~Decoded(q).err.isNil
          [] c = "nilRequest"  -> Decoded(q).err.isNil /\ Decoded(q).Request.isNil}

CheckOrder == <<"method", "body", "contentType", "decode", "nilRequest">>

\* The checks that come before the i-th one.
ChecksBefore(i) == {CheckOrder[j] : j \in 1..(i - 1)}

\* The first check, in the order above, that q violates (q violates one).
FirstViolated(q) ==
    CheckOrder[CHOOSE i \in 1..Len(CheckOrder) :
                   /\ CheckOrder[i] \in Violated(q)
                   /\ ChecksBefore(i) \cap Violated(q) = {}]

CheckCode(c) == IF c = "method" THEN 405 ELSE 400

CheckText(c, q) ==
    CASE c = "method"      -> "invalid method " \o q.Method
                                  \o ", only POST requests are allowed"
      [] c = "body"        -> "could not read request body: " \o q.ReadErr.msg
      [] c = "contentType" -> "unsupported content type " \o q.ContentType
                                  \o ", only application/json is supported"
      [] c = "decode"      -> "could not deserialize request: " \o Decoded(q).err.msg
      [] c = "nilRequest"  -> "malformed admission review: request is nil"

\* The checks that have passed when the handler is at a given place.
PassedAt(loc) ==
    CASE loc = "start"            -> {}
      [] loc = "readBody"         -> ChecksBefore(2)
      [] loc = "checkContentType" -> ChecksBefore(3)
      [] loc = "decode"           -> ChecksBefore(4)
      [] loc \in {"buildResponse", "callAdmit", "inAdmit", "encode",
                  "marshalResponse"} -> ChecksBefore(6)
      [] OTHER                    -> {}

(* C16  Fixed check order.  The adapter applies its checks in the order        *)
(* method, body read, content type, envelope decode, null inner request: a     *)
(* handler is at a check only when the request passed every earlier one, and   *)
(* a request that violates several is rejected with the code and the text of   *)
(* the first it violates only.  So a non-POST request is answered 405 whatever *)
(* its content type or body, and its body is never read or decoded; a POST     *)
(* whose body cannot be read is answered 400 for that, whatever its content    *)
(* type, and never reaches the content-type check.                             *)
C16_CheckOrder ==
    \A h \in Handlers :
        /\ PassedAt(pc[h]) \cap Violated(r[h]) = {}
        /\ Answered(h) /\ Violated(r[h]) # {} =>
              /\ w[h].code = CheckCode(FirstViolated(r[h]))
              /\ w[h].written = <<Text(CheckText(FirstViolated(r[h]), r[h]))>>
        /\ r[h].Method # "POST" =>
              /\ body[h] = NoBytes
              /\ decodeCalls[h] = 0
              /\ w[h].code \in {0, 405}
        /\ r[h].Method = "POST" /\ ~r[h].ReadErr.isNil =>
              /\ pc[h] \notin {"checkContentType", "decode"}
              /\ decodeCalls[h] = 0
              /\ w[h].code \in {0, 400}
              /\ Answered(h) =>
                    w[h].written =
                        <<Text("could not read request body: " \o r[h].ReadErr.msg)>>

\* A GET with the wrong content type, an unreadable body and nothing decodable
\* in it has been answered 405 with the method's error text, its body unread.
C16_Witness ==
    \E h \in Handlers :
        /\ pc[h] = "done"
        /\ r[h].Method = "GET"
        /\ {"method", "body", "contentType", "decode"} \subseteq Violated(r[h])
        /\ w[h].code = 405
        /\ w[h].delivered =
              <<Text("invalid method GET, only POST requests are allowed")>>
        /\ body[h] = NoBytes

\* A POST with the wrong content type and an unreadable body has been answered
\* 400 with the text of the read error.
C16_WitnessUnreadable ==
    \E h \in Handlers :
        /\ pc[h] = "done"
        /\ r[h].Method = "POST"
        /\ {"body", "contentType"} \subseteq Violated(r[h])
        /\ w[h].code = 400
        /\ w[h].delivered = <<Text("could not read request body: unexpected EOF")>>


(* C17  Denial takes priority.  Whenever the admitFunc returns a non-nil       *)
(* error, whatever operations it returns with it, the request is answered 200  *)
(* with a denial: allowed is false and the message is the error's text.  The   *)
(* operations are never marshaled: the response carries no patch, and the      *)
(* adapter never fails with the 500 of a patch that cannot be marshaled, even  *)
(* when the operations could not have been.                                    *)
C17_DenialPriority ==
    /\ [](\A h \in Handlers :
             /\ pc[h] \in {"marshalResponse", "returned", "logWriteErr", "done"}
                /\ ValidRequest(r[h]) /\ ~err[h].isNil =>
                   /\ ~admissionReviewResponse[h].Response.Allowed
                   /\ admissionReviewResponse[h].Response.Result = Status(err[h].msg)
                   /\ admissionReviewResponse[h].Response.Patch = NoBytes
                   /\ w[h].code \in {0, 200}
                   /\ Returned(h) => ret[h].err.isNil
             /\ Answered(h) /\ ValidRequest(r[h]) /\ ~err[h].isNil =>
                   /\ w[h].code = 200
                   /\ SentEnvelope(h)
                   /\ DeliveredUnlessWriteFailed(h)
                   /\ ~SentResponse(h).Allowed
                   /\ SentResponse(h).Result = Status(err[h].msg)
                   /\ SentResponse(h).Patch = NoBytes
                   /\ ~HasKey(EncodedResponse(w[h].written[1]), "patch"))
    /\ [][\A h \in Handlers :
             pc[h] = "encode" /\ ~err[h].isNil =>
                 /\ pc'[h] \in {"encode", "marshalResponse"}
                 /\ w'[h] = w[h]
                 /\ ret'[h] = ret[h]]_vars

\* The admitFunc returned an error together with an operation that cannot be
\* marshaled, and the request was denied with status 200.
C17_Witness ==
    \E h \in Handlers :
        /\ pc[h] = "done"
        /\ ValidRequest(r[h])
        /\ err[h] = NewErr("image not allowed")
        /\ HoldsChan(patchOps[h])
        /\ w[h].code = 200
        /\ w[h].delivered # << >>
        /\ ~SentResponse(h).Allowed
        /\ SentResponse(h).Result.Message = "image not allowed"

\* As above, the operations being ones that could have been marshaled.
C17_WitnessMarshalable ==
    \E h \in Handlers :
        /\ pc[h] = "done"
        /\ ValidRequest(r[h])
        /\ ~err[h].isNil
        /\ ~patchOps[h].isNil /\ Len(patchOps[h].elems) > 0 /\ ~HoldsChan(patchOps[h])
        /\ w[h].code = 200
        /\ SentEnvelope(h)
        /\ ~HasKey(EncodedResponse(w[h].written[1]), "patch")

====
